---- MODULE Spec2Model ----
(***************************************************************************)
(* A model of neuromorphopy: the concurrent paginated metadata search      *)
(* (NeuroMorphoClient.search_neurons), the bounded concurrent downloader   *)
(* (NeuroMorphoClient.download_neurons) and the SWC validator              *)
(* (validate_swc_data).                                                    *)
(*                                                                         *)
(* The specifications share the module, one per component:                 *)
(*   SpecSearch    search_neurons, one call                                *)
(*   SpecDownload  download_neurons, successive calls on one directory     *)
(*   SpecSwc       validate_swc_data on a parsed record                    *)
(*   SpecFetch     get_neuron_swc: get_swc_url, the request helpers, the   *)
(*                 parser, the validator, and the file to_csv writes       *)
(*   SpecLoop      download_swc_data, the sequential loop                  *)
(*   SpecQuery     QueryBuilder: filter, sort, build                       *)
(*   SpecClient    one call of search_neurons or calls of download_neurons *)
(*   SpecOneCallFair  one call of either, under weak fairness              *)
(*   SpecPipeline  search_and_download                                     *)
(* Each leaves the variables of the other components unchanged.            *)
(***************************************************************************)
EXTENDS Integers, Sequences, FiniteSets, TLC

\* ------------------------------------------------------------------ bounds

\* The largest number of pages a search has to fetch.
MaxPages == 2
\* The largest concurrency cap a caller passes.
MaxCap == 2
\* The largest number of items in a list handed to download_neurons.
MaxItems == 2
\* The number of successive calls of download_neurons on one directory.
MaxCalls == 2
\* The largest number of rows of a parsed SWC record.
MaxRows == 3
\* The longest neuron_list handed to download_swc_data: long enough for a step
\* of 2 that does not divide the length.
MaxNeurons == 41
\* The largest number of filter and sort calls chained before build().
MaxBuilderCalls == 2
\* The longest list of values handed to filter.
MaxValues == 2

\* ------------------------------------------------------- program constants
\* percent_increment of download_swc_data (swc.py:99).
PercentIncrement == 5
\* api.py:70  size = 100
PageSize == 100
\* api.py:110  max_concurrent: int | None = None; None is written -1 here
NoneCap == -1

VARIABLES
    \* ---- search_neurons
    totalElements,   \* the remote's count for the query (what the probe reports)
    max_concurrent,  \* self.max_concurrent, the capacity of sem
    output_dir,      \* TRUE when search_neurons got an output_dir
    s_pc,            \* where search_neurons is: "probe", "gather", "returned", "failed"
    total,           \* total, as read from the probe response
    pages,           \* pages
    sem,             \* free permits of sem
    task,            \* page index -> state of fetch_with_sem(page)
    results,         \* page index -> the items _fetch_page returned
    completed,       \* page indexes in the order their fetches finished
    neurons,         \* the list search_neurons returns
    s_err,           \* what search_neurons raised: kind "none", "probe" or "page",
                     \*   the page index for kind "page" (else -1), and the
                     \*   exception's type
    metadata_file,   \* number of rows of the metadata CSV, -1 while it does not exist
    query_ok,        \* TRUE when every field and value of query is in the live vocabulary
    sent,            \* page index -> the params of the page requests issued for it
    \* ---- download_neurons
    dl_neurons,      \* neurons: the neuron_name of every item of the list, in order
    req_concurrent,  \* the max_concurrent argument (NoneCap when not given)
    files,           \* neuron_name -> what downloads/<name>.swc holds
    call,            \* which call of download_neurons this is (1 = the first)
    prev,            \* how the previous call ended: "none", "clean", "failures",
                     \*   "crashed", "raised"
    d_pc,            \* where the call is: "start", "running", "returned",
                     \*   "crashed", "raised"
    download_semaphore,  \* free permits of download_semaphore
    dtask,           \* index into neurons -> state of download_one(neurons[index])
    net,             \* index into neurons -> network requests the task has issued
    report,          \* what the call returned to its caller about the items
    pbar,            \* the count of the progress bar of tqdm.gather
    \* ---- validate_swc_data
    swc_data,        \* the rows of the DataFrame
    swc_in,          \* the rows as they were handed to validate_swc_data
    v_pc,            \* "parsed", "valid" (validate returned), "error" (it raised)
    \* ---- get_neuron_swc
    module,          \* whose get_neuron_swc runs: "neuromorphopy" (swc.py) or
                     \*   "neuromorpho_data" (neuromorpho_data/neuromorpho_api.py)
    g_pc,            \* where get_neuron_swc is
    status,          \* status_code of the response being handled (0: none yet)
    info_page,       \* the anchors of the neuron's info page, in page order
    swc_url,         \* what get_swc_url returned
    payload,         \* the lines of the SWC response, each a sequence of tokens
    exc,             \* the exception raised: its type and the status it names
    extra_cols,      \* unnamed columns of the DataFrame beyond the seven named
    csv_text,        \* the lines of the file to_csv wrote
    reparsed,        \* the result of parsing csv_text
    \* ---- download_swc_data
    num_iterations,  \* len(neuron_list)
    increment_value, \* the step of the progress bar
    loop_n,          \* n, the index enumerate is at
    l_pc,            \* "idle", "try" (before the try of iteration n), "update"
                     \*   (after it), "done" (loop over), "raised"
    attempted,       \* how many neurons get_neuron_swc was called for
    printed,         \* how many "Error downloading" lines were printed
    swc_pbar,        \* pbar.n, the accumulated count of the bar
    \* ---- QueryBuilder
    filters,         \* self.filters: field -> list of values
    sort_by,         \* self.sort_by: a field name or None
    sort_order,      \* self.sort_order: "asc" or "desc"
    calls,           \* the filter and sort calls made on the builder, in order
    q_pc,            \* "idle", "building" (calls are being chained), "built"
    query            \* what build() returned: key -> value

clientVars == <<max_concurrent>>

searchVars == <<totalElements, output_dir, s_pc, total, pages, sem,
                task, results, completed, neurons, s_err, metadata_file, query_ok,
                sent>>

dlVars == <<dl_neurons, req_concurrent, files, call, prev, d_pc,
            download_semaphore, dtask, net, report, pbar>>

swcVars == <<swc_data, swc_in, v_pc>>

fetchVars == <<module, g_pc, status, info_page, swc_url, payload, exc, extra_cols,
               csv_text, reparsed>>

loopVars == <<num_iterations, increment_value, loop_n, l_pc, attempted, printed, swc_pbar>>

queryVars == <<filters, sort_by, sort_order, calls, q_pc, query>>

vars == <<clientVars, searchVars, dlVars, swcVars, fetchVars, loopVars, queryVars>>

\* ------------------------------------------------------------------ helpers

Min(a, b) == IF a < b THEN a ELSE b

\* ===================================================== search_neurons (api.py)

\* The counts the remote may hold: around every page boundary up to MaxPages pages.
Totals == {n \in 0..(MaxPages * PageSize) : n % PageSize \in {0, 1, PageSize - 1}}

\* A page count that is never 0.
PageCountAtLeastOne(n) == n \div PageSize + 1

\* A page count rounded down.
PageCountFloor(n) == n \div PageSize

\* pages = (total + size - 1) // size
PageCount(n) == (n + PageSize - 1) \div PageSize

\* api.py:38-41, 65-68: what can go wrong with a response: its status is an
\* error status, or its JSON body lacks a key the code subscripts.
Causes == {"status", "shape"}

\* The exception each of the two raises: response.raise_for_status() raises
\* aiohttp's ClientResponseError, which carries the status; data["page"]
\* ["totalElements"] and data["_embedded"]["neuronResources"] raise KeyError.
Raised(cause) == IF cause = "status" THEN "ClientResponseError" ELSE "KeyError"

\* The number of items of page p when the remote holds n items.
PageLen(p, n) == Min(PageSize, n - p * PageSize)

\* The items of page p: item k of the result set is the number k (1-based).
PageItems(p, n) == [i \in 1..PageLen(p, n) |-> p * PageSize + i]

\* What the remote may answer for page p: the page, or (its result set having
\* shrunk since the probe) the page without its last item.
Responses(p, n) ==
    {PageItems(p, n)} \cup
    (IF PageLen(p, n) > 0
        THEN {SubSeq(PageItems(p, n), 1, PageLen(p, n) - 1)}
        ELSE {})

\* async with sem: a permit is free
CanAcquireAlways(s) == TRUE
CanAcquireSecond(s) == s > 1
CanAcquire(s) == s > 0

\* The permit of a task that raised is kept.
Kept(s) == s

\* api.py:75, 129: an exception leaving the block of async with passes through
\* the semaphore's __aexit__, which releases the permit.
ReleaseOnError(s) == s + 1

\* api.py:78-82: gather's list holds the tasks' results in the order the tasks
\* were given, tasks = [fetch_with_sem(page) for page in range(pages)].
CompletionOrder(n) == completed
GatherOrder(n) == [i \in 1..n |-> i - 1]

RECURSIVE Flatten(_, _)
\* api.py:84: [neuron for page_results in results for neuron in page_results]
Flatten(res, order) ==
    IF order = <<>> THEN <<>>
    ELSE res[Head(order)] \o Flatten(res, Tail(order))

\* gather has every task's result
GatherAnyFinished(t) == \A p \in DOMAIN t : t[p] \in {"done", "failed"}
GatherDone(t) == \A p \in DOMAIN t : t[p] = "done"

\* The first task that raised, in completion order.
FirstFailed ==
    LET idx == {i \in 1..Len(completed) : task[completed[i]] = "failed"}
    IN  completed[CHOOSE i \in idx : \A j \in idx : i <= j]

\* api.py:106-112, 153: download_neurons is declared -> None and has no return
\* statement: its caller gets no count and no failure back.
NoReport == [written |-> 0, skipped |-> 0, failed |-> {}]

\* No exception was raised.
NoException == [type |-> "none", status |-> 0]

\* No second parse was made.
NotParsed == [ok |-> FALSE, rows |-> <<>>]

\* The other components, not started.
IdleSearch ==
    /\ totalElements = 0
    /\ output_dir = FALSE
    /\ s_pc = "idle"
    /\ total = 0
    /\ pages = 0
    /\ sem = 0
    /\ task = <<>>
    /\ results = <<>>
    /\ completed = <<>>
    /\ neurons = <<>>
    /\ s_err = [kind |-> "none", page |-> -1, exc |-> "none"]
    /\ metadata_file = -1
    /\ query_ok = TRUE
    /\ sent = <<>>

IdleDownload ==
    /\ dl_neurons = <<>>
    /\ req_concurrent = 0
    /\ files = <<>>
    /\ call = 0
    /\ prev = "none"
    /\ d_pc = "idle"
    /\ download_semaphore = 0
    /\ dtask = <<>>
    /\ net = <<>>
    /\ report = NoReport
    /\ pbar = 0

IdleSwc ==
    /\ swc_data = <<>>
    /\ swc_in = <<>>
    /\ v_pc = "idle"

IdleFetch ==
    /\ module = "neuromorphopy"
    /\ g_pc = "idle"
    /\ status = 0
    /\ info_page = <<>>
    /\ swc_url = [base |-> "", line |-> 0, from |-> 0, to |-> 0]
    /\ payload = <<>>
    /\ exc = NoException
    /\ extra_cols = 0
    /\ csv_text = <<>>
    /\ reparsed = NotParsed

\* None of sort_by.
NoSort == [none |-> TRUE, s |-> ""]

IdleQuery ==
    /\ filters = <<>>
    /\ sort_by = NoSort
    /\ sort_order = "asc"
    /\ calls = <<>>
    /\ q_pc = "idle"
    /\ query = <<>>

IdleLoop ==
    /\ num_iterations = 0
    /\ increment_value = 0
    /\ loop_n = 0
    /\ l_pc = "idle"
    /\ attempted = 0
    /\ printed = 0
    /\ swc_pbar = 0

InitSearch ==
    /\ IdleDownload
    /\ IdleSwc
    /\ IdleFetch
    /\ IdleLoop
    /\ IdleQuery
    /\ query_ok \in BOOLEAN
    /\ sent = <<>>
    /\ totalElements \in Totals
    /\ max_concurrent \in 0..MaxCap
    /\ output_dir \in BOOLEAN
    /\ s_pc = "probe"
    /\ total = 0
    /\ pages = 0
    /\ sem = 0
    /\ task = <<>>
    /\ results = <<>>
    /\ completed = <<>>
    /\ neurons = <<>>
    /\ s_err = [kind |-> "none", page |-> -1, exc |-> "none"]
    /\ metadata_file = -1

\* api.py:63-78: the probe answers; total, pages, sem and the tasks are set up.
ProbeOk ==
    /\ s_pc = "probe"
    /\ total' = totalElements
    /\ pages' = PageCount(totalElements)
    /\ sem' = max_concurrent
    /\ task' = [p \in 0..(PageCount(totalElements) - 1) |-> "waiting"]
    /\ results' = [p \in 0..(PageCount(totalElements) - 1) |-> <<>>]
    /\ s_pc' = "gather"
    /\ sent' = [p \in 0..(PageCount(totalElements) - 1) |-> <<>>]
    /\ UNCHANGED <<totalElements, max_concurrent, output_dir, query_ok, completed, neurons,
                   s_err, metadata_file>>
    /\ UNCHANGED <<dlVars, swcVars, fetchVars, loopVars, queryVars>>

\* api.py:65-68: raise_for_status raises for a status of 400 or more, or the
\* body lacks page or page.totalElements and the subscript raises.
ProbeFail ==
    /\ s_pc = "probe"
    /\ s_pc' = "failed"
    /\ \E cause \in Causes :
          s_err' = [kind |-> "probe", page |-> -1, exc |-> Raised(cause)]
    /\ UNCHANGED <<totalElements, max_concurrent, output_dir, query_ok, sent, total, pages, sem,
                   task, results, completed, neurons, metadata_file>>
    /\ UNCHANGED <<dlVars, swcVars, fetchVars, loopVars, queryVars>>

\* api.py:75: fetch_with_sem(p) enters async with sem and starts _fetch_page.
Acquire(p) ==
    /\ s_pc \in {"gather", "failed"}
    /\ task[p] = "waiting"
    /\ CanAcquire(sem)
    /\ sem' = sem - 1
    /\ task' = [task EXCEPT ![p] = "fetching"]
    /\ sent' = [sent EXCEPT ![p] = Append(@, [page |-> p, size |-> PageSize])]
    /\ UNCHANGED <<totalElements, max_concurrent, output_dir, query_ok, s_pc, total, pages,
                   results, completed, neurons, s_err, metadata_file>>
    /\ UNCHANGED <<dlVars, swcVars, fetchVars, loopVars, queryVars>>

\* api.py:38-41, 76: _fetch_page returns the page's items; the permit goes back.
FetchOk(p) ==
    /\ task[p] = "fetching"
    /\ \E r \in Responses(p, totalElements) :
          results' = [results EXCEPT ![p] = r]
    /\ task' = [task EXCEPT ![p] = "done"]
    /\ sem' = sem + 1
    /\ completed' = Append(completed, p)
    /\ UNCHANGED <<totalElements, max_concurrent, output_dir, query_ok, sent, s_pc, total, pages,
                   neurons, s_err, metadata_file>>
    /\ UNCHANGED <<dlVars, swcVars, fetchVars, loopVars, queryVars>>

\* api.py:38-41, 76: _fetch_page raises; async with gives the permit back.
FetchFail(p) ==
    /\ task[p] = "fetching"
    /\ task' = [task EXCEPT ![p] = "failed"]
    /\ sem' = ReleaseOnError(sem)
    /\ completed' = Append(completed, p)
    /\ UNCHANGED <<totalElements, max_concurrent, output_dir, query_ok, sent, s_pc, total, pages,
                   results, neurons, s_err, metadata_file>>
    /\ UNCHANGED <<dlVars, swcVars, fetchVars, loopVars, queryVars>>

\* api.py:79-82: gather re-raises the first exception of a task; search_neurons
\* ends there (the other tasks are not cancelled by gather).
GatherRaise ==
    /\ s_pc = "gather"
    /\ \E p \in DOMAIN task : task[p] = "failed"
    /\ s_pc' = "failed"
    /\ \E cause \in Causes :
          s_err' = [kind |-> "page", page |-> FirstFailed, exc |-> Raised(cause)]
    /\ UNCHANGED <<totalElements, max_concurrent, output_dir, query_ok, sent, total, pages, sem,
                   task, results, completed, neurons, metadata_file>>
    /\ UNCHANGED <<dlVars, swcVars, fetchVars, loopVars, queryVars>>

\* api.py:84-97: gather returned; the pages are flattened, the metadata is
\* written when an output_dir was given, and the list is returned.
Return ==
    /\ s_pc = "gather"
    /\ GatherDone(task)
    /\ neurons' = Flatten(results, GatherOrder(pages))
    /\ metadata_file' =
          IF output_dir THEN Len(Flatten(results, GatherOrder(pages))) ELSE -1
    /\ s_pc' = "returned"
    /\ UNCHANGED <<totalElements, max_concurrent, output_dir, query_ok, sent, total, pages, sem,
                   task, results, completed, s_err>>
    /\ UNCHANGED <<dlVars, swcVars, fetchVars, loopVars, queryVars>>

NextSearch ==
    \/ ProbeOk
    \/ ProbeFail
    \/ \E p \in DOMAIN task : Acquire(p)
    \/ \E p \in DOMAIN task : FetchOk(p)
    \/ \E p \in DOMAIN task : FetchFail(p)
    \/ GatherRaise
    \/ Return

SpecSearch == InitSearch /\ [][NextSearch]_vars

\* ================================================== download_neurons (api.py)

\* The neuron names of the catalog.
Names == {"n1", "n2"}

\* A neuron dict without the key "neuron_name".
NoName == "no neuron_name"

\* The lists of items a caller passes: every sequence of at most MaxItems
\* items, each with one of the names or without a name, repeats included.
ItemLists == UNION {[1..k -> Names \cup {NoName}] : k \in 0..MaxItems}

\* f"{name}.swc" under downloads_dir: one path per neuron_name.
Path(name) == name

\* The complete text of the SWC file of a neuron.
Content(name) == name

\* output_path.exists()
ExistsNever(f, name) == FALSE
Exists(f, name) == f[Path(name)] # "absent"

\* max_concurrent or self.max_concurrent: None and 0 are both falsy.
CapOfClient(req, self) == self
DownloadCap(req, self) ==
    IF req = NoneCap \/ req = 0 THEN self ELSE req

\* output_path.write_text(content), when it succeeds.
WriteNowhere(f, name) == f
WriteText(f, name) == [f EXCEPT ![Path(name)] = Content(name)]

\* api.py:149-151: tqdm.gather iterates a tqdm bar over as_completed(tasks),
\* which advances it by one for every task that finished without raising,
\* whatever download_one did.
AdvancedOnSuccess(n, outcome) == IF outcome = "failed" THEN n ELSE n + 1
Advanced(n, outcome) == n + 1

\* The call's tasks run while gather waits for them and, gather cancelling
\* nothing when one of them raises, after it has raised too.
Live == {"running", "propagated"}

\* The tasks inside async with download_semaphore.
InSection == {t \in DOMAIN dtask : dtask[t] \in {"resolving", "fetching"}}

Terminal == {"written", "skipped", "failed"}

InitDownload ==
    /\ IdleSearch
    /\ IdleSwc
    /\ IdleFetch
    /\ IdleLoop
    /\ IdleQuery
    /\ report = NoReport
    /\ pbar = 0
    /\ max_concurrent \in 0..MaxCap
    /\ dl_neurons \in ItemLists
    /\ req_concurrent \in {NoneCap} \cup 0..MaxCap
    /\ files \in [Names -> {"absent", "old"}]
    /\ call = 1
    /\ prev = "none"
    /\ d_pc = "start"
    /\ download_semaphore = 0
    /\ dtask = <<>>
    /\ net = <<>>

\* api.py:121-149: the downloads directory exists afterwards, the semaphore is
\* created and one download_one task per item is handed to gather.
DownloadStart ==
    /\ d_pc = "start"
    /\ d_pc' = "running"
    /\ download_semaphore' = DownloadCap(req_concurrent, max_concurrent)
    /\ dtask' = [t \in 1..Len(dl_neurons) |-> "pending"]
    /\ pbar' = 0
    /\ net' = [t \in 1..Len(dl_neurons) |-> 0]
    /\ UNCHANGED <<report, dl_neurons, req_concurrent, files, call, prev>>
    /\ UNCHANGED <<clientVars, searchVars, swcVars, fetchVars, loopVars, queryVars>>

\* api.py:123: downloads_dir.mkdir raises (the path is a file, no permission).
DownloadSetupFail ==
    /\ d_pc = "start"
    /\ d_pc' = "raised"
    /\ UNCHANGED <<report, pbar, dl_neurons, req_concurrent, files, call, prev,
                   download_semaphore, dtask, net>>
    /\ UNCHANGED <<clientVars, searchVars, swcVars, fetchVars, loopVars, queryVars>>

\* api.py:129-135: the task takes a permit, finds its file and returns, which
\* gives the permit back; nothing is awaited in between.
Skip(t) ==
    /\ d_pc \in Live
    /\ dtask[t] = "pending"
    /\ CanAcquire(download_semaphore)
    /\ dl_neurons[t] # NoName
    /\ Exists(files, dl_neurons[t])
    /\ dtask' = [dtask EXCEPT ![t] = "skipped"]
    /\ pbar' = IF d_pc = "running" THEN Advanced(pbar, "skipped") ELSE pbar
    /\ UNCHANGED <<report, dl_neurons, req_concurrent, files, call, prev, d_pc,
                   download_semaphore, net>>
    /\ UNCHANGED <<clientVars, searchVars, swcVars, fetchVars, loopVars, queryVars>>

\* api.py:129-130: the task takes a permit and neuron["neuron_name"], which is
\* before the try, raises KeyError; leaving async with gives the permit back
\* and the exception ends the task.
KeyErrorTask(t) ==
    /\ d_pc \in Live
    /\ dtask[t] = "pending"
    /\ CanAcquire(download_semaphore)
    /\ dl_neurons[t] = NoName
    /\ dtask' = [dtask EXCEPT ![t] = "raised"]
    /\ UNCHANGED <<report, pbar, dl_neurons, req_concurrent, files, call, prev, d_pc,
                   download_semaphore, net>>
    /\ UNCHANGED <<clientVars, searchVars, swcVars, fetchVars, loopVars, queryVars>>

\* api.py:149-153: gather re-raises the exception of a task that raised and
\* download_neurons ends with it; the other tasks are not cancelled. The bar
\* is closed and counts no more.
DownloadPropagate ==
    /\ d_pc = "running"
    /\ \E t \in DOMAIN dtask : dtask[t] = "raised"
    /\ d_pc' = "propagated"
    /\ UNCHANGED <<report, pbar, dl_neurons, req_concurrent, files, call, prev,
                   download_semaphore, dtask, net>>
    /\ UNCHANGED <<clientVars, searchVars, swcVars, fetchVars, loopVars, queryVars>>

\* api.py:129-140: the task takes a permit, finds no file and asks for the
\* neuron's info page (get_swc_url, the first network request).
StartResolve(t) ==
    /\ d_pc \in Live
    /\ dtask[t] = "pending"
    /\ CanAcquire(download_semaphore)
    /\ dl_neurons[t] # NoName
    /\ ~Exists(files, dl_neurons[t])
    /\ download_semaphore' = download_semaphore - 1
    /\ dtask' = [dtask EXCEPT ![t] = "resolving"]
    /\ net' = [net EXCEPT ![t] = 1]
    /\ UNCHANGED <<report, pbar, dl_neurons, req_concurrent, files, call, prev, d_pc>>
    /\ UNCHANGED <<clientVars, searchVars, swcVars, fetchVars, loopVars, queryVars>>

\* api.py:140: get_swc_url returned the URL; session.get asks for the file
\* (the second network request).
ResolveOk(t) ==
    /\ d_pc \in Live
    /\ dtask[t] = "resolving"
    /\ dtask' = [dtask EXCEPT ![t] = "fetching"]
    /\ net' = [net EXCEPT ![t] = 2]
    /\ UNCHANGED <<report, pbar, dl_neurons, req_concurrent, files, call, prev, d_pc,
                   download_semaphore>>
    /\ UNCHANGED <<clientVars, searchVars, swcVars, fetchVars, loopVars, queryVars>>

\* swc.py:16-19, api.py:146-147: get_swc_url raises (bad status, no link in the
\* page); the exception is printed and the task ends.
ResolveFail(t) ==
    /\ d_pc \in Live
    /\ dtask[t] = "resolving"
    /\ dtask' = [dtask EXCEPT ![t] = "failed"]
    /\ download_semaphore' = ReleaseOnError(download_semaphore)
    /\ pbar' = IF d_pc = "running" THEN Advanced(pbar, "failed") ELSE pbar
    /\ UNCHANGED <<report, dl_neurons, req_concurrent, files, call, prev, d_pc, net>>
    /\ UNCHANGED <<clientVars, searchVars, swcVars, fetchVars, loopVars, queryVars>>

\* api.py:140-147: session.get, raise_for_status or response.text() raises.
FetchFailed(t) ==
    /\ d_pc \in Live
    /\ dtask[t] = "fetching"
    /\ dtask' = [dtask EXCEPT ![t] = "failed"]
    /\ download_semaphore' = ReleaseOnError(download_semaphore)
    /\ pbar' = IF d_pc = "running" THEN Advanced(pbar, "failed") ELSE pbar
    /\ UNCHANGED <<report, dl_neurons, req_concurrent, files, call, prev, d_pc, net>>
    /\ UNCHANGED <<clientVars, searchVars, swcVars, fetchVars, loopVars, queryVars>>

\* api.py:144-145: the text arrived and write_text wrote all of it.
WriteOk(t) ==
    /\ d_pc \in Live
    /\ dtask[t] = "fetching"
    /\ files' = WriteText(files, dl_neurons[t])
    /\ dtask' = [dtask EXCEPT ![t] = "written"]
    /\ download_semaphore' = download_semaphore + 1
    /\ pbar' = IF d_pc = "running" THEN Advanced(pbar, "written") ELSE pbar
    /\ UNCHANGED <<report, dl_neurons, req_concurrent, call, prev, d_pc, net>>
    /\ UNCHANGED <<clientVars, searchVars, swcVars, fetchVars, loopVars, queryVars>>

\* api.py:145-147: write_text raises: either open() failed and the path is as it
\* was, or the file was opened (created, truncated) and the write stopped part
\* way (disk full, I/O error). The exception is printed and the task ends.
WriteFail(t) ==
    /\ d_pc \in Live
    /\ dtask[t] = "fetching"
    /\ \/ files' = files
       \/ files' = [files EXCEPT ![Path(dl_neurons[t])] = "partial"]
    /\ dtask' = [dtask EXCEPT ![t] = "failed"]
    /\ download_semaphore' = ReleaseOnError(download_semaphore)
    /\ pbar' = IF d_pc = "running" THEN Advanced(pbar, "failed") ELSE pbar
    /\ UNCHANGED <<report, dl_neurons, req_concurrent, call, prev, d_pc, net>>
    /\ UNCHANGED <<clientVars, searchVars, swcVars, fetchVars, loopVars, queryVars>>

\* The process is killed while the call runs (interrupt, power loss): between
\* two steps of the tasks, or in the middle of a task's write_text
\* (api.py:145), which leaves the file opened and partly written. The tasks and
\* the semaphore die with the process.
Crash ==
    /\ d_pc = "running"
    /\ d_pc' = "crashed"
    /\ \/ files' = files
       \/ \E t \in DOMAIN dtask :
            /\ dtask[t] = "fetching"
            /\ files' = [files EXCEPT ![Path(dl_neurons[t])] = "partial"]
    /\ download_semaphore' = 0
    /\ dtask' = <<>>
    /\ net' = <<>>
    /\ pbar' = 0
    /\ UNCHANGED <<report, dl_neurons, req_concurrent, call, prev>>
    /\ UNCHANGED <<clientVars, searchVars, swcVars, fetchVars, loopVars, queryVars>>

\* api.py:149-153: gather has every task's result; download_neurons returns,
\* and what it returns is None.
DownloadReturn ==
    /\ d_pc = "running"
    /\ \A t \in DOMAIN dtask : dtask[t] \in Terminal
    /\ d_pc' = "returned"
    /\ report' = NoReport
    /\ UNCHANGED <<dl_neurons, req_concurrent, files, call, prev,
                   download_semaphore, dtask, net, pbar>>
    /\ UNCHANGED <<clientVars, searchVars, swcVars, fetchVars, loopVars, queryVars>>

\* How a call that is over ended.
Ended ==
    CASE d_pc = "crashed" -> "crashed"
      [] d_pc \in {"raised", "propagated"} -> "raised"
      [] d_pc = "returned" /\ (\E t \in DOMAIN dtask : dtask[t] = "failed") -> "failures"
      [] OTHER -> "clean"

\* The caller calls download_neurons again, with the same items and the same
\* output directory, once the call before is over.
CallAgain ==
    /\ d_pc \in {"returned", "crashed", "raised", "propagated"}
    /\ \A t \in DOMAIN dtask : dtask[t] \in Terminal \cup {"raised"}
    /\ call < MaxCalls
    /\ call' = call + 1
    /\ prev' = Ended
    /\ d_pc' = "start"
    /\ download_semaphore' = 0
    /\ dtask' = <<>>
    /\ net' = <<>>
    /\ report' = NoReport
    /\ pbar' = 0
    /\ UNCHANGED <<dl_neurons, req_concurrent, files>>
    /\ UNCHANGED <<clientVars, searchVars, swcVars, fetchVars, loopVars, queryVars>>

NextDownload ==
    \/ DownloadStart
    \/ DownloadSetupFail
    \/ \E t \in DOMAIN dtask : Skip(t)
    \/ \E t \in DOMAIN dtask : KeyErrorTask(t)
    \/ DownloadPropagate
    \/ \E t \in DOMAIN dtask : StartResolve(t)
    \/ \E t \in DOMAIN dtask : ResolveOk(t)
    \/ \E t \in DOMAIN dtask : ResolveFail(t)
    \/ \E t \in DOMAIN dtask : FetchFailed(t)
    \/ \E t \in DOMAIN dtask : WriteOk(t)
    \/ \E t \in DOMAIN dtask : WriteFail(t)
    \/ Crash
    \/ DownloadReturn
    \/ CallAgain

SpecDownload == InitDownload /\ [][NextDownload]_vars

\* ================================================ validate_swc_data (swc.py)

\* The values the type and parent columns take in the records checked.
Types == {1, 3}
Parents == {-1, 1, 2}

\* The parsed records: at least one row (get_neuron_swc slices from an existing
\* line), at most MaxRows; n is 1-based and contiguous.
Records ==
    UNION {{[i \in 1..k |-> [n |-> i, type |-> tp[i][1], x |-> 0, y |-> 0, z |-> 0,
                             radius |-> 1, parent |-> tp[i][2]]] :
                tp \in [1..k -> Types \X Parents]} : k \in 1..MaxRows}

\* swc_data[col].unique()
Unique(data, col) == {data[i][col] : i \in DOMAIN data}

\* swc.py:26  -1 not in swc_data["parent"].unique()
HasRoot(data) == -1 \in Unique(data, "parent")

\* swc.py:29  1 not in swc_data["type"].unique()
HasSoma(data) == 1 \in Unique(data, "type")

\* swc.py:31  swc_data.loc[0, "type"] = 1: label 0 of the RangeIndex is the
\* first row (position 1 of the sequence here).
SetSomaAtRoot(data) ==
    LET r == CHOOSE i \in DOMAIN data : data[i].parent = -1
    IN  [data EXCEPT ![r].type = 1]

SetSoma(data) == [data EXCEPT ![1].type = 1]

InitSwc ==
    /\ IdleSearch
    /\ IdleDownload
    /\ IdleFetch
    /\ IdleLoop
    /\ IdleQuery
    /\ max_concurrent = 0
    /\ swc_data \in Records
    /\ swc_in = swc_data
    /\ v_pc = "parsed"

\* swc.py:26-27: no row has parent -1; ValueError is raised.
ValidateRaise ==
    /\ v_pc = "parsed"
    /\ ~HasRoot(swc_data)
    /\ v_pc' = "error"
    /\ UNCHANGED <<swc_data, swc_in>>
    /\ UNCHANGED <<clientVars, searchVars, dlVars, fetchVars, loopVars, queryVars>>

\* swc.py:29-31: a root exists and validate_swc_data returns, after setting the
\* type of the first row when no row is a soma.
ValidateReturn ==
    /\ v_pc = "parsed"
    /\ HasRoot(swc_data)
    /\ swc_data' = IF HasSoma(swc_data) THEN swc_data ELSE SetSoma(swc_data)
    /\ v_pc' = "valid"
    /\ UNCHANGED swc_in
    /\ UNCHANGED <<clientVars, searchVars, dlVars, fetchVars, loopVars, queryVars>>

NextSwc ==
    \/ ValidateRaise
    \/ ValidateReturn

SpecSwc == InitSwc /\ [][NextSwc]_vars

\* ========================================================= get_neuron_swc
\*
\* One call of get_neuron_swc (swc.py:34-68, or the copy of it in
\* neuromorpho_data/neuromorpho_api.py:259-293), followed for swc.py by the
\* to_csv of download_swc_data (swc.py:110-111) and a parse of what it wrote.

MaxPageLines == 2
MaxAnchors == 2
MaxLines == 3

\* The status codes a response can carry: 200, other success codes, the four
\* codes of bad_status, and error codes that are not in it.
Codes == {200, 204, 400, 401, 403, 404, 405, 500, 503}

\* utils.py:36-41: the keys of bad_status.
BadStatus == {400, 404, 405, 500}

\* utils.py:34-47: 200 returns; any other code raises ValueError with the
\* message bad_status holds for it, and the lookup bad_status[code] itself
\* raises KeyError(code) for a code that is not a key.
CheckResponseValidity(code) ==
    IF code = 200 THEN NoException
    ELSE IF code \in BadStatus THEN [type |-> "ValueError", status |-> code]
    ELSE [type |-> "KeyError", status |-> code]

\* ---- the info page and get_swc_url
\*
\* The page is its lines, a line the anchors on it. An anchor is "std"
\* (<a href=dableFiles/...>Morphology File (Standardized)</a>), "orig" (an
\* href under dableFiles/ with another label) or "other".
AnchorKinds == {"std", "orig", "other"}

PageLines == UNION {[1..k -> AnchorKinds] : k \in 0..MaxAnchors}

Pages == UNION {[1..k -> PageLines] : k \in 1..MaxPageLines}

NoUrl == [base |-> "", line |-> 0, from |-> 0, to |-> 0]

\* The anchors of a line whose href starts with dableFiles/.
Dable(line) == {a \in DOMAIN line : line[a] \in {"std", "orig"}}

Std(line) == {a \in DOMAIN line : line[a] = "std"}

Least(S) == CHOOSE a \in S : \A b \in S : a <= b

Greatest(S) == CHOOSE a \in S : \A b \in S : a >= b

\* A pattern without the label: any href under dableFiles/ matches.
FindallLoose(page) ==
    LET idx == SelectSeq([i \in 1..Len(page) |-> i], LAMBDA i : Dable(page[i]) # {})
    IN  [j \in 1..Len(idx) |->
            [line |-> idx[j], from |-> Least(Dable(page[idx[j]])),
             to |-> Greatest(Dable(page[idx[j]]))]]

\* swc.py:18-19: re.findall of <a href=(dableFiles/.*)>Morphology File
\* \(Standardized\)</a>. "." matches no newline and ".*" is greedy: a line has a
\* match when it holds a std anchor, the match starts at the line's first href
\* under dableFiles/ and runs to its last std anchor, so the group is the text
\* from anchor "from" to anchor "to" of that line. The matches come in page
\* order.
Findall(page) ==
    LET idx == SelectSeq([i \in 1..Len(page) |-> i], LAMBDA i : Std(page[i]) # {})
    IN  [j \in 1..Len(idx) |->
            [line |-> idx[j], from |-> Least(Dable(page[idx[j]])),
             to |-> Greatest(Std(page[idx[j]]))]]

\* swc.py:21: f"{NEUROMORPHO}/{match}".
Url(match) ==
    [base |-> "NEUROMORPHO", line |-> match.line, from |-> match.from, to |-> match.to]

\* ---- the SWC text
\*
\* A line is the sequence of its whitespace-separated fields; a field is an
\* integer literal, a literal with a decimal point (v stands for v.0), a word
\* that is no number, or a field that holds the character #.
IntTok(v) == [k |-> "int", v |-> v]
FloatTok(v) == [k |-> "float", v |-> v]
Word == [k |-> "word", v |-> 0]
Hash == [k |-> "hash", v |-> 0]

CommentLine == <<Hash, Word>>
SomaRootLine == <<IntTok(1), IntTok(1), FloatTok(0), FloatTok(0), FloatTok(0), FloatTok(1), IntTok(-1)>>
RootLine == <<IntTok(1), IntTok(3), FloatTok(0), FloatTok(0), FloatTok(0), FloatTok(1), IntTok(-1)>>
ChildLine == <<IntTok(2), IntTok(3), FloatTok(0), FloatTok(0), FloatTok(0), IntTok(1), IntTok(1)>>
TrailingCommentLine == RootLine \o <<Hash, Word>>
ShortLine == <<IntTok(2), IntTok(3), FloatTok(0), FloatTok(0), FloatTok(0), IntTok(1)>>
LongLine == ChildLine \o <<IntTok(0)>>
FloatIdLine == <<FloatTok(2), IntTok(3), FloatTok(0), FloatTok(0), FloatTok(0), IntTok(1), IntTok(1)>>
BlankLine == <<>>

Lines == {CommentLine, SomaRootLine, RootLine, ChildLine, TrailingCommentLine,
          ShortLine, LongLine, FloatIdLine, BlankLine}

Payloads == UNION {[1..k -> Lines] : k \in 0..MaxLines}

\* "#" in line
HasHash(line) == \E i \in DOMAIN line : line[i].k = "hash"

\* The lines without # anywhere.
NoHashLines(lines) == {i \in DOMAIN lines : ~HasHash(lines[i])}

\* swc.py:46: next(idx for idx, line in enumerate(response_list) if "#" not in
\* line), counted from 1 here; 0 when next() finds none (StopIteration).
DataStart(lines) ==
    IF NoHashLines(lines) = {} THEN 0 ELSE Least(NoHashLines(lines))

\* swc.py:48-49: the rows of the frame, one per line from DataStart on.
DataRegion(lines) == SubSeq(lines, DataStart(lines), Len(lines))

\* str.split(expand=True): as many columns as the longest row has fields.
NCols(data) ==
    IF data = <<>> THEN 0
    ELSE Greatest({Len(data[i]) : i \in DOMAIN data})

\* int(field), float(field): int takes an integer literal only, float takes a
\* literal with or without the point.
IsInt(tok) == tok.k = "int"
IsFloat(tok) == tok.k \in {"int", "float"}

\* swc.py:55-65: astype. A row shorter than the frame has None in its last
\* columns, and int(None) raises; the seven named columns must convert.
Coerces(line) ==
    /\ Len(line) >= 7
    /\ IsInt(line[1]) /\ IsInt(line[2]) /\ IsInt(line[7])
    /\ \A c \in 3..6 : IsFloat(line[c])

ToRow(line) ==
    [n |-> line[1].v, type |-> line[2].v, x |-> line[3].v, y |-> line[4].v,
     z |-> line[5].v, radius |-> line[6].v, parent |-> line[7].v]

ParseFailed(type) == [ok |-> FALSE, exc |-> type, rows |-> <<>>, extra |-> 0]

\* swc.py:43-65 with strict, neuromorpho_data/neuromorpho_api.py:270-290
\* without: the frame before validation. zip(..., strict=True) raises
\* ValueError unless the frame has seven columns; the plain zip names the
\* first seven and leaves the others, and astype raises KeyError for a
\* missing name when there are fewer.
ParseText(lines, strict) ==
    IF DataStart(lines) = 0 THEN ParseFailed("StopIteration")
    ELSE LET data == DataRegion(lines)
         IN  IF strict /\ NCols(data) # 7 THEN ParseFailed("ValueError")
             ELSE IF NCols(data) < 7 THEN ParseFailed("KeyError")
             ELSE IF \E i \in DOMAIN data : ~Coerces(data[i])
                  THEN ParseFailed("ValueError or TypeError")
             ELSE [ok |-> TRUE, exc |-> "none",
                   rows |-> [i \in 1..Len(data) |-> ToRow(data[i])],
                   extra |-> NCols(data) - 7]

\* to_csv(sep=" ", header=True, index=False): a line of column names, then a
\* line per row; an int column prints as an integer literal, a float column
\* with its decimal point.
HeaderLine == <<Word, Word, Word, Word, Word, Word, Word>>

FormatRow(row) ==
    <<IntTok(row.n), IntTok(row.type), FloatTok(row.x), FloatTok(row.y), FloatTok(row.z),
      FloatTok(row.radius), IntTok(row.parent)>>

ToCsv(data) == <<HeaderLine>> \o [i \in 1..Len(data) |-> FormatRow(data[i])]

\* ---- the call

Modules == {"neuromorphopy", "neuromorpho_data"}

\* swc.py:51 has strict=True, neuromorpho_data/neuromorpho_api.py:277 has not.
Strict(m) == m = "neuromorphopy"

Error(type) == [type |-> type, status |-> 0]

InitFetch ==
    /\ IdleSearch
    /\ IdleDownload
    /\ IdleSwc
    /\ IdleLoop
    /\ IdleQuery
    /\ max_concurrent = 0
    /\ module \in Modules
    /\ g_pc = "start"
    /\ status = 0
    /\ info_page = <<>>
    /\ swc_url = NoUrl
    /\ payload = <<>>
    /\ exc = NoException
    /\ extra_cols = 0
    /\ csv_text = <<>>
    /\ reparsed = NotParsed

\* swc.py:15-16, utils.py:77-81: request_url_get of the info page.
\* _check_response_validity raises on the response's status, or the response
\* is returned to get_swc_url.
InfoResponse ==
    /\ g_pc = "start"
    /\ \E code \in Codes :
          /\ status' = code
          /\ exc' = CheckResponseValidity(code)
          /\ IF CheckResponseValidity(code) = NoException
             THEN /\ info_page' \in Pages
                  /\ g_pc' = "info"
             ELSE /\ info_page' = info_page
                  /\ g_pc' = "raised"
    /\ UNCHANGED <<module, swc_url, payload, extra_cols, csv_text, reparsed>>
    /\ UNCHANGED <<clientVars, searchVars, dlVars, swcVars, loopVars, queryVars>>

\* swc.py:18-21: findall(...)[0] raises IndexError on an empty list; else the
\* URL is built from the first match and returned.
GetSwcUrl ==
    /\ g_pc = "info"
    /\ IF Findall(info_page) = <<>>
       THEN /\ exc' = Error("IndexError")
            /\ g_pc' = "raised"
            /\ swc_url' = swc_url
       ELSE /\ swc_url' = Url(Findall(info_page)[1])
            /\ g_pc' = "resolved"
            /\ exc' = exc
    /\ UNCHANGED <<module, status, info_page, payload, extra_cols, csv_text, reparsed>>
    /\ UNCHANGED <<clientVars, searchVars, dlVars, swcVars, loopVars, queryVars>>

\* swc.py:21, 43, utils.py:78: get_swc_url returns, which ends the life of its
\* page, and request_url_get sends the GET for the URL.
RequestSwc ==
    /\ g_pc = "resolved"
    /\ g_pc' = "requested"
    /\ info_page' = <<>>
    /\ UNCHANGED <<module, status, swc_url, payload, exc, extra_cols, csv_text, reparsed>>
    /\ UNCHANGED <<clientVars, searchVars, dlVars, swcVars, loopVars, queryVars>>

\* swc.py:43-45, utils.py:78-81: the response to it; the status is checked the
\* same way and the text is split into lines. The URL was a local of the call
\* that is over.
SwcResponse ==
    /\ g_pc = "requested"
    /\ \E code \in Codes :
          /\ status' = code
          /\ exc' = CheckResponseValidity(code)
          /\ IF CheckResponseValidity(code) = NoException
             THEN /\ payload' \in Payloads
                  /\ g_pc' = "fetched"
             ELSE /\ payload' = payload
                  /\ g_pc' = "raised"
    /\ swc_url' = NoUrl
    /\ UNCHANGED <<module, info_page, extra_cols, csv_text, reparsed>>
    /\ UNCHANGED <<clientVars, searchVars, dlVars, swcVars, loopVars, queryVars>>

\* swc.py:46-65: the frame is built from the lines and its columns converted,
\* or one of these steps raises.
ParseSwc ==
    /\ g_pc = "fetched"
    /\ LET r == ParseText(payload, Strict(module))
       IN  IF r.ok
           THEN /\ swc_data' = r.rows
                /\ swc_in' = r.rows
                /\ extra_cols' = r.extra
                /\ v_pc' = "parsed"
                /\ g_pc' = "parsed"
                /\ exc' = exc
           ELSE /\ exc' = Error(r.exc)
                /\ g_pc' = "raised"
                /\ UNCHANGED <<swc_data, swc_in, extra_cols, v_pc>>
    /\ UNCHANGED <<module, status, info_page, swc_url, payload, csv_text, reparsed>>
    /\ UNCHANGED <<clientVars, searchVars, dlVars, loopVars, queryVars>>

\* swc.py:66-68: validate_swc_data raises, or normalises the frame, which
\* get_neuron_swc then returns.
ValidateSwc ==
    /\ g_pc = "parsed"
    /\ IF HasRoot(swc_data)
       THEN /\ swc_data' = IF HasSoma(swc_data) THEN swc_data ELSE SetSoma(swc_data)
            /\ v_pc' = "valid"
            /\ g_pc' = "returned"
            /\ exc' = exc
       ELSE /\ swc_data' = swc_data
            /\ v_pc' = "error"
            /\ g_pc' = "raised"
            /\ exc' = Error("ValueError")
    /\ UNCHANGED swc_in
    /\ UNCHANGED <<module, status, info_page, swc_url, payload, extra_cols, csv_text,
                   reparsed>>
    /\ UNCHANGED <<clientVars, searchVars, dlVars, loopVars, queryVars>>

\* swc.py:110-111: download_swc_data writes the frame get_neuron_swc returned
\* with to_csv.
WriteCsv ==
    /\ g_pc = "returned"
    /\ module = "neuromorphopy"
    /\ csv_text' = ToCsv(swc_data)
    /\ g_pc' = "written"
    /\ UNCHANGED <<module, status, info_page, swc_url, payload, exc, extra_cols, reparsed>>
    /\ UNCHANGED <<clientVars, searchVars, dlVars, swcVars, loopVars, queryVars>>

\* swc.py:46-66 applied to the text of the written file: parsed, and if that
\* worked validated.
Validated(rows) == IF HasSoma(rows) THEN rows ELSE SetSoma(rows)

ParseFile ==
    /\ g_pc = "written"
    /\ LET r == ParseText(csv_text, Strict(module))
       IN  reparsed' = IF r.ok /\ HasRoot(r.rows)
                       THEN [ok |-> TRUE, rows |-> Validated(r.rows)]
                       ELSE [ok |-> FALSE, rows |-> <<>>]
    /\ g_pc' = "reparsed"
    /\ UNCHANGED <<module, status, info_page, swc_url, payload, exc, extra_cols, csv_text>>
    /\ UNCHANGED <<clientVars, searchVars, dlVars, swcVars, loopVars, queryVars>>

NextFetch ==
    \/ InfoResponse
    \/ GetSwcUrl
    \/ RequestSwc
    \/ SwcResponse
    \/ ParseSwc
    \/ ValidateSwc
    \/ WriteCsv
    \/ ParseFile

SpecFetch == InitFetch /\ [][NextFetch]_vars

\* ================================================ download_swc_data (swc.py)
\*
\* The sequential download of a list of names: one get_neuron_swc and one
\* to_csv per neuron inside a try, then the update of the progress bar outside
\* it. What get_neuron_swc does is in SpecFetch; here a neuron's attempt either
\* saves its file or raises an Exception that the except clause prints.

\* int(num_iterations * percent_increment / 100): the quotient is not negative,
\* so int() rounds it down.
IncrementValue(len) == (len * PercentIncrement) \div 100

InitLoop ==
    /\ IdleSearch
    /\ IdleDownload
    /\ IdleSwc
    /\ IdleFetch
    /\ IdleQuery
    /\ max_concurrent = 0
    /\ num_iterations \in 1..MaxNeurons
    /\ increment_value = IncrementValue(num_iterations)
    /\ loop_n = 0
    /\ l_pc = "try"
    /\ attempted = 0
    /\ printed = 0
    /\ swc_pbar = 0

\* Lines 109-111: the neuron's data is fetched and saved.
AttemptSaved ==
    /\ l_pc = "try"
    /\ attempted' = attempted + 1
    /\ l_pc' = "update"
    /\ UNCHANGED <<num_iterations, increment_value, loop_n, printed, swc_pbar>>
    /\ UNCHANGED <<clientVars, searchVars, dlVars, swcVars, fetchVars, queryVars>>

\* Lines 109-113: get_neuron_swc or to_csv raises, the except clause prints.
AttemptError ==
    /\ l_pc = "try"
    /\ attempted' = attempted + 1
    /\ printed' = printed + 1
    /\ l_pc' = "update"
    /\ UNCHANGED <<num_iterations, increment_value, loop_n, swc_pbar>>
    /\ UNCHANGED <<clientVars, searchVars, dlVars, swcVars, fetchVars, queryVars>>

\* Lines 114-115 with a step that is not zero, then the next iteration or the
\* end of the loop.
UpdateBar ==
    /\ l_pc = "update"
    /\ increment_value # 0
    /\ swc_pbar' = IF loop_n % increment_value = 0
                   THEN swc_pbar + increment_value
                   ELSE swc_pbar
    /\ loop_n' = loop_n + 1
    /\ l_pc' = IF loop_n + 1 < num_iterations THEN "try" ELSE "done"
    /\ UNCHANGED <<num_iterations, increment_value, attempted, printed>>
    /\ UNCHANGED <<clientVars, searchVars, dlVars, swcVars, fetchVars, queryVars>>

\* Line 114 with a step of zero: n % 0 raises ZeroDivisionError outside the try,
\* and download_swc_data ends with it.
ZeroDivision ==
    /\ l_pc = "update"
    /\ increment_value = 0
    /\ l_pc' = "raised"
    /\ UNCHANGED <<num_iterations, increment_value, loop_n, attempted, printed, swc_pbar>>
    /\ UNCHANGED <<clientVars, searchVars, dlVars, swcVars, fetchVars, queryVars>>

NextLoop ==
    \/ AttemptSaved
    \/ AttemptError
    \/ UpdateBar
    \/ ZeroDivision

SpecLoop == InitLoop /\ [][NextLoop]_vars

\* ====================================================== QueryBuilder (query.py)
\*
\* A builder is made, filter and sort are called on it in any order, then
\* build() returns the query that search_neurons is given.

\* Field names a caller passes; "_sort" is the key build() uses for the sorting.
FieldNames == {"species", "_sort"}
\* The field argument of sort: any str, the empty one included.
SortFields == {"", "species"}
ValueStrings == {"a", "b"}

\* The values argument of filter: a str or a list of str (values: str | list[str]).
StrArg(v) == [isstr |-> TRUE, s |-> v, l |-> <<>>]
ListArg(list) == [isstr |-> FALSE, s |-> "", l |-> list]
ValueArgs ==
    {StrArg(v) : v \in ValueStrings} \cup
    {ListArg(list) : list \in UNION {[1..k -> ValueStrings] : k \in 0..MaxValues}}

\* Lines 18-19: a str becomes the list of that one str, a list stays as it is.
AsList(values) == IF values.isstr THEN <<values.s>> ELSE values.l

\* A value of the dict build() returns: a list of values or the sorting dict.
ListValue(list) == [kind |-> "list", items |-> list, field |-> "", order |-> ""]
DictValue(f, o) == [kind |-> "dict", items |-> <<>>, field |-> f, order |-> o]

\* d[key] = value of a dict.
SetItem(d, key, value) ==
    [k \in DOMAIN d \cup {key} |-> IF k = key THEN value ELSE d[k]]

\* Lines 12-15.
InitQuery ==
    /\ IdleSearch
    /\ IdleDownload
    /\ IdleSwc
    /\ IdleFetch
    /\ IdleLoop
    /\ max_concurrent = 0
    /\ filters = <<>>
    /\ sort_by = NoSort
    /\ sort_order = "asc"
    /\ calls = <<>>
    /\ q_pc = "building"
    /\ query = <<>>

\* Lines 17-21.
Filter(field, values) ==
    /\ q_pc = "building"
    /\ Len(calls) < MaxBuilderCalls
    /\ filters' = SetItem(filters, field, AsList(values))
    /\ calls' = Append(calls, [op |-> "filter", field |-> field, values |-> values,
                                ascending |-> TRUE])
    /\ UNCHANGED <<sort_by, sort_order, q_pc, query>>
    /\ UNCHANGED <<clientVars, searchVars, dlVars, swcVars, fetchVars, loopVars>>

\* Lines 23-26.
Sort(field, ascending) ==
    /\ q_pc = "building"
    /\ Len(calls) < MaxBuilderCalls
    /\ sort_by' = [none |-> FALSE, s |-> field]
    /\ sort_order' = IF ascending THEN "asc" ELSE "desc"
    /\ calls' = Append(calls, [op |-> "sort", field |-> field, values |-> ListArg(<<>>),
                                ascending |-> ascending])
    /\ UNCHANGED <<filters, q_pc, query>>
    /\ UNCHANGED <<clientVars, searchVars, dlVars, swcVars, fetchVars, loopVars>>

\* `if self.sort_by:` of line 36: None and the empty str are false.
Truthy(sb) == ~sb.none /\ sb.s # ""

\* Lines 28-39: the filters are copied key by key, then "_sort" is set when
\* there is a sorting.
BuildQuery(fs, sb, so) ==
    LET combined == [f \in DOMAIN fs |-> ListValue(fs[f])]
    IN  IF Truthy(sb) THEN SetItem(combined, "_sort", DictValue(sb.s, so))
        ELSE combined

Build ==
    /\ q_pc = "building"
    /\ query' = BuildQuery(filters, sort_by, sort_order)
    /\ q_pc' = "built"
    /\ UNCHANGED <<filters, sort_by, sort_order, calls>>
    /\ UNCHANGED <<clientVars, searchVars, dlVars, swcVars, fetchVars, loopVars>>

NextQuery ==
    \/ \E field \in FieldNames, values \in ValueArgs : Filter(field, values)
    \/ \E field \in SortFields, ascending \in BOOLEAN : Sort(field, ascending)
    \/ Build

SpecQuery == InitQuery /\ [][NextQuery]_vars

\* ============================================= the client's two operations
\*
\* One call of search_neurons, or calls of download_neurons.

InitClient == InitSearch \/ InitDownload

NextClient == NextSearch \/ NextDownload

SpecClient == InitClient /\ [][NextClient]_vars

\* One call of either operation in a process that is not killed, on an event
\* loop that runs every task that is ready and a network whose every request
\* comes back with an answer or an error: a step is taken as long as one is
\* possible.

NextDownloadOnce ==
    \/ DownloadStart
    \/ DownloadSetupFail
    \/ \E t \in DOMAIN dtask : Skip(t)
    \/ \E t \in DOMAIN dtask : KeyErrorTask(t)
    \/ DownloadPropagate
    \/ \E t \in DOMAIN dtask : StartResolve(t)
    \/ \E t \in DOMAIN dtask : ResolveOk(t)
    \/ \E t \in DOMAIN dtask : ResolveFail(t)
    \/ \E t \in DOMAIN dtask : FetchFailed(t)
    \/ \E t \in DOMAIN dtask : WriteOk(t)
    \/ \E t \in DOMAIN dtask : WriteFail(t)
    \/ DownloadReturn

NextOneCall == NextSearch \/ NextDownloadOnce

SpecOneCallFair == InitClient /\ [][NextOneCall]_vars /\ WF_vars(NextOneCall)

\* ====================================================== search_and_download
\*
\* api.py:156-181: _run calls search_neurons with the output directory and,
\* when it has returned, download_neurons with the list it returned and the
\* same max_concurrent as the client's.

\* The dicts of the items of a list the search returned, as download_one
\* reads them: each has one of the names as its "neuron_name" or lacks the key;
\* the remote decides, the search does not look.
DictsOf(list) == {l \in ItemLists : Len(l) = Len(list)}

\* download_neurons is called while the search is still running.
SearchStarted == s_pc \in {"gather", "returned"}

\* api.py:175-178: await client.search_neurons(...) has returned its list.
SearchReturned == s_pc = "returned"

InitPipeline ==
    /\ IdleSwc
    /\ IdleFetch
    /\ IdleLoop
    /\ IdleQuery
    /\ query_ok \in BOOLEAN
    /\ sent = <<>>
    /\ totalElements \in 0..MaxItems
    /\ max_concurrent \in 0..MaxCap
    /\ output_dir = TRUE
    /\ s_pc = "probe"
    /\ total = 0
    /\ pages = 0
    /\ sem = 0
    /\ task = <<>>
    /\ results = <<>>
    /\ completed = <<>>
    /\ neurons = <<>>
    /\ s_err = [kind |-> "none", page |-> -1, exc |-> "none"]
    /\ metadata_file = -1
    /\ files \in [Names -> {"absent", "old"}]
    /\ dl_neurons = <<>>
    /\ req_concurrent = 0
    /\ call = 0
    /\ prev = "none"
    /\ d_pc = "idle"
    /\ download_semaphore = 0
    /\ dtask = <<>>
    /\ net = <<>>
    /\ report = NoReport
    /\ pbar = 0

\* api.py:178: download_neurons(neurons, output_dir, max_concurrent=max_concurrent)
\* is called.
CallDownload ==
    /\ SearchReturned
    /\ d_pc = "idle"
    /\ d_pc' = "start"
    /\ dl_neurons' \in DictsOf(neurons)
    /\ req_concurrent' = max_concurrent
    /\ call' = 1
    /\ UNCHANGED <<files, prev, download_semaphore, dtask, net, report, pbar>>
    /\ UNCHANGED <<clientVars, searchVars, swcVars, fetchVars, loopVars, queryVars>>

NextPipeline ==
    \/ NextSearch
    \/ CallDownload
    \/ NextDownloadOnce

SpecPipeline == InitPipeline /\ [][NextPipeline]_vars

\* ==================================================================== claims

\* ---- search_neurons (SpecSearch)

RECURSIVE Offset(_, _)
\* The number of items of the pages before page p.
Offset(res, p) == IF p = 0 THEN 0 ELSE Offset(res, p - 1) + Len(res[p - 1])

InFlight == {p \in DOMAIN task : task[p] = "fetching"}

\* C1: the list search_neurons returns holds page 0's items, then page 1's,
\* ... : the items of page p start right after those of the pages below p, in
\* the page's own order, whatever order the fetches completed in.
C1_PageOrder ==
    s_pc = "returned" =>
        /\ Len(neurons) = Offset(results, pages)
        /\ \A p \in 0..(pages - 1) : \A i \in 1..Len(results[p]) :
              neurons[Offset(results, p) + i] = results[p][i]

\* A search of several pages has returned although a later page completed
\* before an earlier one.
C1_Witness ==
    /\ s_pc = "returned"
    /\ pages >= 2
    /\ \E i \in 1..Len(completed) : \E j \in 1..Len(completed) :
          i < j /\ completed[i] > completed[j]
    /\ Len(neurons) > PageSize

\* C2: a search that returns, returns exactly total items (total being the
\* probe's totalElements); with any other number of items it does not return.
C2_ExactTotal == s_pc = "returned" => Len(neurons) = total

\* C3: with a cap of at least 1, the page fetches started and not finished
\* never outnumber the cap.
C3_SearchInFlight ==
    max_concurrent >= 1 => Cardinality(InFlight) <= max_concurrent

\* As many fetches as the cap allows are in flight while another page waits.
C3_Witness ==
    /\ max_concurrent >= 1
    /\ Cardinality(InFlight) = max_concurrent
    /\ \E p \in DOMAIN task : task[p] = "waiting"

\* C5: search_neurons never returns once the probe or a page fetch has failed;
\* when it has raised, the error is that of the probe or of a failed page, no
\* list was returned and no metadata file was written.
C5_AllOrNothing ==
    /\ (\E p \in DOMAIN task : task[p] = "failed") => s_pc # "returned"
    /\ s_pc = "failed" =>
          /\ neurons = <<>>
          /\ metadata_file = -1
          /\ \/ s_err.kind = "probe"
             \/ s_err.kind = "page" /\ task[s_err.page] = "failed"
    /\ s_pc = "returned" => s_err.kind = "none"

\* The search raised with the error of a page while another page had arrived
\* with items and an output_dir was given.
C5_Witness ==
    /\ s_pc = "failed"
    /\ s_err.kind = "page"
    /\ output_dir
    /\ \E p \in DOMAIN task : task[p] = "done" /\ Len(results[p]) > 0

\* ---- download_neurons (SpecDownload)

\* The only task for its neuron_name in the list.
OnlyTaskOfName(t) ==
    \A u \in DOMAIN dl_neurons : dl_neurons[u] = dl_neurons[t] => u = t

C6_FailureIsolation ==
    d_pc = "returned" =>
        \A t \in DOMAIN dtask :
            /\ dtask[t] \in Terminal
            /\ OnlyTaskOfName(t) /\ dtask[t] = "written" =>
                  files[Path(dl_neurons[t])] = Content(dl_neurons[t])
            /\ OnlyTaskOfName(t) /\ dtask[t] = "failed" =>
                  files[Path(dl_neurons[t])] = "absent"

\* C7: a task that runs while its target path exists ends as skipped in that
\* step, has issued no network request, and the step changes no file.
C7_SkipExisting ==
    [][\A t \in DOMAIN dtask :
          (/\ t \in DOMAIN dtask'
           /\ dtask[t] = "pending"
           /\ dl_neurons[t] # NoName
           /\ files[Path(dl_neurons[t])] # "absent"
           /\ dtask'[t] # "pending")
          => (dtask'[t] = "skipped" /\ net'[t] = 0 /\ files' = files)]_vars

\* A task was skipped for a file that was there before the call, which still
\* holds what it held, while another item was downloaded.
C7_Witness ==
    \E t \in DOMAIN dtask : \E u \in DOMAIN dtask :
        /\ dtask[t] = "skipped"
        /\ net[t] = 0
        /\ files[Path(dl_neurons[t])] = "old"
        /\ dtask[u] = "written"

\* C8 as stated: in a call that follows a call that returned, every task is
\* skipped (or not yet run) and no network request is issued.
C8_SecondCallSkipsAll ==
    (call >= 2 /\ prev \in {"clean", "failures"}) =>
        \A t \in DOMAIN dtask : dtask[t] \in {"pending", "skipped"} /\ net[t] = 0

\* C8 as amended: in a call that follows a call that returned with no failed
\* item, every task is skipped (or not yet run) and no network request is issued.
C8_SecondCallAfterClean ==
    (call >= 2 /\ prev = "clean") =>
        \A t \in DOMAIN dtask : dtask[t] \in {"pending", "skipped"} /\ net[t] = 0

\* The second call has returned, every item skipped, after a first call that
\* downloaded an item.
C8_Witness ==
    /\ call = 2
    /\ prev = "clean"
    /\ d_pc = "returned"
    /\ Len(dl_neurons) >= 2
    /\ \A t \in DOMAIN dtask : dtask[t] = "skipped"
    /\ \E n \in Names : files[Path(n)] = Content(n)

\* C9: a file that exists at a target path holds the complete content, so no
\* task is skipped for a partly written file.
C9_NoPartialFile ==
    /\ \A n \in Names : files[Path(n)] \in {"absent", "old", Content(n)}
    /\ \A t \in DOMAIN dtask :
          dtask[t] = "skipped" => files[Path(dl_neurons[t])] \in {"old", Content(dl_neurons[t])}

\* ---- validate_swc_data (SpecSwc)

\* The rows whose parent is -1.
Roots(data) == {i \in DOMAIN data : data[i].parent = -1}

\* C10: validate_swc_data accepts a record only if exactly one row has
\* parent -1.
C10_ExactlyOneRoot == v_pc = "valid" => Cardinality(Roots(swc_data)) = 1

C15_ReportAccountsForAll ==
    d_pc = "returned" =>
        /\ \A t \in DOMAIN dtask : dtask[t] \in Terminal
        /\ report.written + report.skipped + Cardinality(report.failed)
               = Len(dl_neurons)
        /\ \A t \in DOMAIN dtask :
              dtask[t] = "failed" => \E f \in report.failed : f.item = dl_neurons[t]

\* The page requests search_neurons has issued.
PageFetches == {p \in DOMAIN task : task[p] # "waiting"}

\* C16: when the probe reports totalElements = 0 the search returns the empty
\* list and issues no page fetch.
C16_EmptySearch ==
    (s_pc \in {"gather", "returned", "failed"} /\ s_err.kind # "probe" /\ total = 0) =>
        /\ PageFetches = {}
        /\ DOMAIN task = {}
        /\ s_pc # "failed"
        /\ s_pc = "returned" => neurons = <<>>

\* A search whose probe reported 0 returned, with an output directory given.
C16_Witness ==
    /\ s_pc = "returned"
    /\ totalElements = 0
    /\ neurons = <<>>
    /\ output_dir
    /\ metadata_file = 0

\* C17: a probe that is unsuccessful or lacks the count field fails the search
\* with the one remote-error kind, the exception that carries the status, and
\* no page fetch is issued afterwards.
C17_ProbeFailureIsRemoteError ==
    s_err.kind = "probe" =>
        /\ s_pc = "failed"
        /\ s_err.exc = "ClientResponseError"
        /\ PageFetches = {}

\* C18: the probe is sent only for a query that passed validation against the
\* live vocabulary.
C18_ValidatedBeforeProbe == s_pc # "probe" => query_ok

\* ---- get_neuron_swc (SpecFetch)

\* The parse of the payload went through: a frame was built and converted.
Parsed == g_pc \in {"parsed", "returned", "written", "reparsed"} \/ v_pc = "error"

\* C12: a record is built only from a payload every data line of which has
\* exactly 7 fields; one line with fewer or more (a blank line too) makes the
\* parse fail.
C12_SevenFields ==
    Parsed => \A i \in DOMAIN payload :
                  i >= DataStart(payload) => Len(payload[i]) = 7

\* The lines that do not begin with #.
NotCommentLines(lines) ==
    {i \in DOMAIN lines : lines[i] = <<>> \/ lines[i][1].k # "hash"}

\* The data region starts at the first line that does not begin with #.
DataStartAtFirstNonComment(lines) ==
    IF NotCommentLines(lines) = {} THEN 0 ELSE Least(NotCommentLines(lines))

\* C13: the record has one row for every line from the first line that does
\* not begin with the comment marker to the end of the payload, in order.
C13_DataRegion ==
    Parsed =>
        LET first == DataStartAtFirstNonComment(payload)
        IN  /\ first > 0
            /\ Len(swc_in) = Len(payload) - first + 1
            /\ \A i \in DOMAIN swc_in : swc_in[i] = ToRow(payload[first + i - 1])

\* C14: the file to_csv writes for a record, parsed again, gives the rows of
\* the record, row for row and field for field.
C14_RoundTrip ==
    g_pc = "reparsed" => reparsed.ok /\ reparsed.rows = swc_data

\* C19: every status that is not a success code makes the request helper
\* raise, always the same exception type, naming the status; the response
\* does not reach the caller.
C19_OneRemoteError ==
    (status # 0 /\ status \notin 200..299) =>
        /\ g_pc = "raised"
        /\ exc.type = "ValueError"
        /\ exc.status = status

\* C20: get_swc_url returns a URL only for a page that has a match of the
\* pattern, and then the one built from the first match (the first line with
\* a standardized-file anchor); for a page without a match it raises
\* IndexError.
C20_FirstMatchOrFail ==
    LET matching == {i \in DOMAIN info_page : \E a \in DOMAIN info_page[i] :
                                                info_page[i][a] = "std"}
    IN  /\ g_pc = "resolved" =>
              /\ matching # {}
              /\ swc_url.base = "NEUROMORPHO"
              /\ swc_url.line = Least(matching)
              /\ info_page[swc_url.line][swc_url.to] = "std"
        /\ (info_page # <<>> /\ matching = {}) => swc_url = NoUrl
        /\ exc.type = "IndexError" => (g_pc = "raised" /\ matching = {})

\* A page with the pattern on two lines, resolved to the first of them.
C20_Witness ==
    /\ g_pc = "resolved"
    /\ Len(Findall(info_page)) = 2
    /\ swc_url.line = Findall(info_page)[1].line
    /\ swc_url.line < Findall(info_page)[2].line

\* C22: search_neurons writes nothing: no call of it leaves a metadata file.
C22_SearchWritesNothing == metadata_file = -1

\* C24: after the probe the number of pages is ceil(total / size), the least
\* count of pages of that size holding total items; no page index outside
\* 0..pages-1 is requested and none twice, and when the search returns each has
\* been requested once, with its index and the one page size.
C24_OneFetchPerPage ==
    s_pc \in {"gather", "returned"} =>
        /\ pages * PageSize >= total
        /\ (pages - 1) * PageSize < total
        /\ DOMAIN sent = 0..(pages - 1)
        /\ \A p \in DOMAIN sent : Len(sent[p]) <= 1
        /\ \A p \in DOMAIN sent : \A i \in DOMAIN sent[p] :
              sent[p][i] = [page |-> p, size |-> PageSize]
        /\ s_pc = "returned" => \A p \in DOMAIN sent : Len(sent[p]) = 1

\* A search over a last page that is not full returned.
C24_Witness ==
    /\ s_pc = "returned"
    /\ total = PageSize + 1
    /\ pages = 2
    /\ Len(sent[0]) = 1
    /\ Len(sent[1]) = 1

\* ---- download_neurons, continued (SpecDownload)

\* The tasks that have finished.
Finished == {t \in DOMAIN dtask : dtask[t] \in Terminal}

\* C21: while download_neurons runs the progress bar has advanced once for
\* every finished task, whether it wrote, skipped or failed, and when the call
\* returns its count is the number of items.
C21_ProgressPerTask ==
    /\ d_pc = "running" => pbar = Cardinality(Finished)
    /\ d_pc = "returned" => pbar = Len(dl_neurons)

\* A call returned after one task wrote, and another failed.
C21_Witness ==
    /\ d_pc = "returned"
    /\ pbar = 2
    /\ \E t \in DOMAIN dtask : dtask[t] = "written"
    /\ \E t \in DOMAIN dtask : dtask[t] = "failed"

\* C23: download_neurons raises only when mkdir of the downloads directory
\* fails: whatever goes wrong with one item stays in its task, no task ends
\* with an exception and the call does not end with the exception of a task.
C23_OnlySetupFails ==
    /\ d_pc # "propagated"
    /\ \A t \in DOMAIN dtask : dtask[t] # "raised"

\* C26: no two tasks of a call write the same target path.
C26_DisjointPaths ==
    \A t \in DOMAIN dtask : \A u \in DOMAIN dtask :
        (t # u /\ dtask[t] = "written" /\ dtask[u] = "written")
            => Path(dl_neurons[t]) # Path(dl_neurons[u])

\* ---- search_neurons and download_neurons (SpecClient)

\* C25: while a semaphore exists, its free permits and the tasks inside its
\* section add up to its capacity, also after a task failed inside the
\* section; when the operation has returned every permit is free.
C25_PermitAccounting ==
    /\ (s_pc \in {"gather", "returned", "failed"} /\ s_err.kind # "probe") =>
          sem + Cardinality(InFlight) = max_concurrent
    /\ s_pc = "returned" => sem = max_concurrent
    /\ d_pc \in Live \cup {"returned"} =>
          download_semaphore + Cardinality(InSection)
              = DownloadCap(req_concurrent, max_concurrent)
    /\ d_pc = "returned" =>
          download_semaphore = DownloadCap(req_concurrent, max_concurrent)

\* A download task failed inside the section while another holds a permit.
C25_Witness ==
    /\ d_pc = "running"
    /\ \E t \in DOMAIN dtask : dtask[t] = "failed"
    /\ Cardinality(InSection) = 1
    /\ download_semaphore = DownloadCap(req_concurrent, max_concurrent) - 1

\* C28: once search_neurons has ended with a failure, or download_neurons with
\* the exception of a task, no task that was waiting for a permit starts its
\* network work, and no step leaves a partly written file.
C28_AbortStopsTasks ==
    [][/\ s_pc = "failed" =>
             \A p \in DOMAIN task : task[p] = "waiting" => task'[p] = "waiting"
       /\ d_pc = "propagated" =>
             \A t \in DOMAIN dtask : dtask[t] = "pending" => dtask'[t] # "resolving"
       /\ \A n \in Names : files # <<>> => files'[n] # "partial"]_vars

\* ---- termination (SpecOneCallFair)

\* C30: with a cap of at least 1, whatever the number of pages or items, a
\* call of search_neurons ends (it returns or raises) with every page task
\* having held a permit and finished, and so does a call of download_neurons
\* with every download task.
C30_Termination ==
    /\ (s_pc = "probe" /\ max_concurrent >= 1) ~>
          (/\ s_pc \in {"returned", "failed"}
           /\ \A p \in DOMAIN task : task[p] \in {"done", "failed"})
    /\ (d_pc = "start" /\ DownloadCap(req_concurrent, max_concurrent) >= 1) ~>
          (/\ d_pc \in {"returned", "raised", "propagated"}
           /\ \A t \in DOMAIN dtask : dtask[t] \in Terminal \cup {"raised"})

\* A call with one permit and two items returned, both written.
C30_Witness ==
    /\ d_pc = "returned"
    /\ DownloadCap(req_concurrent, max_concurrent) = 1
    /\ Len(dl_neurons) = 2
    /\ \A t \in DOMAIN dtask : dtask[t] = "written"

\* ---- search_and_download (SpecPipeline)

\* C27: download_neurons is called only when search_neurons has returned,
\* every page fetch done, and with one task for each item it returned; until
\* then, and for ever if the search fails, no download task exists and no file
\* is written under the downloads directory.
C27_SearchBeforeDownload ==
    /\ d_pc # "idle" =>
          /\ s_pc = "returned"
          /\ \A p \in DOMAIN task : task[p] = "done"
          /\ dl_neurons \in DictsOf(neurons)
          /\ d_pc \in Live => DOMAIN dtask = DOMAIN neurons
    /\ s_pc # "returned" =>
          /\ d_pc = "idle"
          /\ dtask = <<>>
          /\ \A n \in Names : files[n] \in {"absent", "old"}

\* A download task is at work after a search that fetched a page.
C27_Witness ==
    /\ pages = 1
    /\ task[0] = "done"
    /\ Len(neurons) = 2
    /\ \E t \in DOMAIN dtask : dtask[t] = "fetching"
    /\ \E t \in DOMAIN dtask : dtask[t] = "written"

\* ---- download_swc_data (SpecLoop)

\* C29: for every list of N >= 1 neurons download_swc_data never raises out of
\* its loop, and when the loop is over every one of the N neurons was attempted
\* and the count of the progress bar is N.
C29_AllAttemptedAndCounted ==
    /\ l_pc # "raised"
    /\ l_pc = "done" =>
          /\ attempted = num_iterations
          /\ swc_pbar = num_iterations

\* ---- QueryBuilder (SpecQuery)

\* The fields filter was called for, and the values of the last such call.
FilteredFields == {calls[i].field : i \in {j \in DOMAIN calls : calls[j].op = "filter"}}
LastFilter(f) ==
    LET of == {j \in DOMAIN calls : calls[j].op = "filter" /\ calls[j].field = f}
        j == CHOOSE m \in of : \A o \in of : o <= m
    IN  AsList(calls[j].values)

\* C31: after any sequence of filter and sort calls the query build() returns
\* maps every key to a non-empty list of strings, has exactly the filtered
\* fields as its keys, and maps each of them to the values of the last filter
\* call made for it.
C31_WellFormedQuery ==
    q_pc = "built" =>
        /\ \A k \in DOMAIN query : query[k].kind = "list" /\ query[k].items # <<>>
        /\ DOMAIN query = FilteredFields
        /\ \A f \in FilteredFields :
              /\ f \in DOMAIN query
              /\ query[f].kind = "list"
              /\ query[f].items = LastFilter(f)

====
